---- MODULE Spec2Model ----
(***************************************************************************)
(* PolyTrack alert evaluation engine: the cron route that loads every      *)
(* alert, fetches market snapshots through a memoizing cache, evaluates    *)
(* presets and custom rules, and drives notification and persistence.      *)
(*                                                                         *)
(* Numbers.  Volumes are integers; for integers the JavaScript comparison  *)
(* v > p * 1.2 on doubles agrees with 5 * v > 6 * p.  Prices,              *)
(* probabilities and thresholds on the 0..1 scale are written in percent.  *)
(*                                                                         *)
(* Records.  A record constructor lists its fields in the order in which   *)
(* the field names first occur in this module, the order TLC keeps them.   *)
(***************************************************************************)
EXTENDS Integers, Sequences, FiniteSets, TLC

(***************************************************************************)
(* Bounds of the model and constants of the program.                       *)
(***************************************************************************)
MaxAlerts == 2
MaxConditions == 2
MaxOutcomes == 2
LargeTradeVolume == 10000

Null == "null"

\* new Date().toISOString(): the time of an update, whichever it is.
TriggeredAt == "2024-01-01T00:00:00.000Z"

Slugs == {"m1", "m2"}
Users == {"u1", "u2"}
OutcomeIds == {"o1", "o2"}

Volumes == {60, 72, 73}
Fractions == {20, 60}
OutcomeVolumes == {9999, 10000}
Values == {0, 60}
Metrics == {"volume", "probability", "price", "other"}
Operators == {"gt", "lt"}
RuleOperators == {"AND", "OR"}

SeqsUpTo(S, n) == UNION {[1..k -> S] : k \in 0..n}

\* MarketOutcome: the outcome at position i of a snapshot carries the id "o<i>".
OutcomeId(i) == IF i = 1 THEN "o1" ELSE "o2"

OutcomeFields == [price : Fractions, probability : Fractions, volume : OutcomeVolumes]

MkOutcome(i, f) ==
    [price |-> f.price, probability |-> f.probability, volume |-> f.volume,
     id |-> OutcomeId(i)]

OutcomeLists ==
    {[i \in DOMAIN fs |-> MkOutcome(i, fs[i])] : fs \in SeqsUpTo(OutcomeFields, MaxOutcomes)}

\* MarketData, without the slug and title the evaluators never read.
Snapshots ==
    [totalVolume : Volumes, outcomes : OutcomeLists,
     favoriteOutcomeId : OutcomeIds \cup {Null}]

Conditions == [metric : Metrics, operator : Operators, value : Values]

(***************************************************************************)
(* Maps (JavaScript Map): a function whose domain is the set of keys.      *)
(***************************************************************************)
EmptyMap == [k \in {} |-> Null]

MapHas(m, k) == k \in DOMAIN m

MapSet(m, k, v) == [x \in (DOMAIN m) \cup {k} |-> IF x = k THEN v ELSE m[x]]

VARIABLES
    marketCache,            \* slug -> promise of a snapshot
    favoriteOutcomeCache,   \* alert id -> outcome id or Null
    volumeCache,            \* alert id -> total volume
    userEmailCache,         \* user id -> promise of an address or Null
    call,                   \* the last evaluator call: inputs, state before, result
    cronSecret,             \* process.env.CRON_SECRET, Null when not configured
    db,                     \* the rows of the alerts table, in the order select('*') returns them
    pc,                     \* where POST is suspended: idle, load, market, user, send, mark
    alerts,                 \* POST's local alerts
    idx,                    \* position of the loop in alerts
    processed,              \* POST's local processed
    response,               \* the response of the last invocation
    marketCalls,            \* getMarketData calls of this invocation, per slug
    userCalls,              \* getUserById calls of this invocation, per user
    fetched,                \* positions for which fetchMarket was called
    seen,                   \* position -> snapshot its evaluation read
    triggered,              \* positions whose evaluation returned true
    skipped,                \* positions whose recipient resolved to none
    dispatched,             \* positions for which emails.send was called
    updated,                \* positions for which the timestamp update was issued
    counted,                \* positions for which processed was incremented
    failedAt,               \* the failed external calls: <<collaborator, position>>
    profiles,               \* the profiles table: user id -> is_pro
    requests,               \* the dashboard's server actions: request -> where it is suspended
    ruleOperator,           \* AlertBuilder's state ruleOperator
    conditions              \* AlertBuilder's state conditions: the condition drafts

caches == <<marketCache, favoriteOutcomeCache, volumeCache, userEmailCache>>

history ==
    <<marketCalls, userCalls, fetched, seen, triggered, skipped, dispatched, updated, counted,
      failedAt>>

batch == <<cronSecret, db, pc, alerts, idx, processed, response, history>>

builder == <<ruleOperator, conditions>>

dashboard == <<profiles, requests, builder>>

vars == <<caches, call, dashboard, batch>>

(***************************************************************************)
(* The condition evaluator.                                                *)
(***************************************************************************)
StrictCompare_NonStrict(operator, metricValue, value) ==
    IF operator = "gt" THEN metricValue >= value ELSE metricValue <= value

StrictCompare(operator, metricValue, value) ==
    IF operator = "gt" THEN metricValue > value ELSE metricValue < value

MetricValue(metric, market) ==
    CASE metric = "volume" -> market.totalVolume
      [] metric = "probability" ->
            IF Len(market.outcomes) >= 1 THEN market.outcomes[1].probability ELSE 0
      [] metric = "price" ->
            IF Len(market.outcomes) >= 1 THEN market.outcomes[1].price ELSE 0
      [] OTHER -> 0

evaluateCondition(condition, market) ==
    StrictCompare(condition.operator, MetricValue(condition.metric, market), condition.value)

\* Without the empty-list test: every() of an empty list is true.
evaluateCustomRule_NoEmptyTest(rule, market) ==
    IF rule.operator = "AND"
    THEN \A i \in DOMAIN rule.conditions : evaluateCondition(rule.conditions[i], market)
    ELSE \E i \in DOMAIN rule.conditions : evaluateCondition(rule.conditions[i], market)

evaluateCustomRule(rule, market) ==
    IF Len(rule.conditions) = 0
    THEN FALSE
    ELSE IF rule.operator = "AND"
         THEN \A i \in DOMAIN rule.conditions : evaluateCondition(rule.conditions[i], market)
         ELSE \E i \in DOMAIN rule.conditions : evaluateCondition(rule.conditions[i], market)

VolumeSpike_NonStrict(currentVolume, previousVolume) == 5 * currentVolume >= 6 * previousVolume

VolumeSpike(currentVolume, previousVolume) == 5 * currentVolume > 6 * previousVolume

SimulatedLargeTrade(market) ==
    \E i \in DOMAIN market.outcomes : market.outcomes[i].volume >= LargeTradeVolume

\* The previous volume defaulting to 0 instead of the current volume.
evaluateWhalePreset_DefaultZero(vc, alertId, market) ==
    LET previousVolume == IF MapHas(vc, alertId) THEN vc[alertId] ELSE 0
    IN  [vc |-> MapSet(vc, alertId, market.totalVolume),
         ret |-> VolumeSpike(market.totalVolume, previousVolume) \/ SimulatedLargeTrade(market)]

\* The volume stored only when the alert triggers.
evaluateWhalePreset_StoreOnTrigger(vc, alertId, market) ==
    LET previousVolume == IF MapHas(vc, alertId) THEN vc[alertId] ELSE market.totalVolume
        ret == VolumeSpike(market.totalVolume, previousVolume) \/ SimulatedLargeTrade(market)
    IN  [vc |-> IF ret THEN MapSet(vc, alertId, market.totalVolume) ELSE vc,
         ret |-> ret]

\* Returns the result and the volume cache after the call.
evaluateWhalePreset(vc, alertId, market) ==
    LET previousVolume == IF MapHas(vc, alertId) THEN vc[alertId] ELSE market.totalVolume
    IN  [vc |-> MapSet(vc, alertId, market.totalVolume),
         ret |-> VolumeSpike(market.totalVolume, previousVolume) \/ SimulatedLargeTrade(market)]

FlipDecision(currentFavorite, hasPrevious, previousFavorite) ==
    IF currentFavorite = Null \/ ~hasPrevious \/ previousFavorite = Null
    THEN FALSE
    ELSE currentFavorite # previousFavorite

\* The previous favorite read after the store was overwritten.
evaluateFlipPreset_ReadAfterWrite(fc, alertId, market) ==
    LET currentFavorite == market.favoriteOutcomeId
        written == MapSet(fc, alertId, currentFavorite)
    IN  [ret |-> FlipDecision(currentFavorite, TRUE, written[alertId]),
         fc |-> written]

\* Returns the result and the favorite cache after the call.
evaluateFlipPreset(fc, alertId, market) ==
    LET currentFavorite == market.favoriteOutcomeId
        hasPrevious == MapHas(fc, alertId)
        previousFavorite == IF hasPrevious THEN fc[alertId] ELSE Null
    IN  [ret |-> FlipDecision(currentFavorite, hasPrevious, previousFavorite),
         fc |-> MapSet(fc, alertId, currentFavorite)]

\* An alert row as the evaluator reads it.  custom_settings is <<>> when the
\* column is null and <<rule>> otherwise; preset_type is Null when absent.
\* A custom alert that was triggered before stays quiet.
evaluateAlert_OncePerAlert(vc, fc, alert, market) ==
    IF alert.type = "PRESET"
    THEN IF alert.preset_type = "WHALE"
         THEN LET r == evaluateWhalePreset(vc, alert.id, market)
              IN  [vc |-> r.vc, ret |-> r.ret, fc |-> fc]
         ELSE IF alert.preset_type = "FLIP"
              THEN LET r == evaluateFlipPreset(fc, alert.id, market)
                   IN  [vc |-> vc, ret |-> r.ret, fc |-> r.fc]
              ELSE [vc |-> vc, ret |-> FALSE, fc |-> fc]
    ELSE IF alert.custom_settings = <<>> \/ alert.last_triggered_at # Null
         THEN [vc |-> vc, ret |-> FALSE, fc |-> fc]
         ELSE [vc |-> vc,
               ret |-> evaluateCustomRule(alert.custom_settings[1], market), fc |-> fc]

evaluateAlert(vc, fc, alert, market) ==
    IF alert.type = "PRESET"
    THEN IF alert.preset_type = "WHALE"
         THEN LET r == evaluateWhalePreset(vc, alert.id, market)
              IN  [vc |-> r.vc, ret |-> r.ret, fc |-> fc]
         ELSE IF alert.preset_type = "FLIP"
              THEN LET r == evaluateFlipPreset(fc, alert.id, market)
                   IN  [vc |-> vc, ret |-> r.ret, fc |-> r.fc]
              ELSE [vc |-> vc, ret |-> FALSE, fc |-> fc]
    ELSE IF alert.custom_settings = <<>>
         THEN [vc |-> vc, ret |-> FALSE, fc |-> fc]
         ELSE [vc |-> vc,
               ret |-> evaluateCustomRule(alert.custom_settings[1], market), fc |-> fc]

(***************************************************************************)
(* The preset evaluators called on their own, call after call, with the    *)
(* alert state store carried from one call to the next.  The snapshots are *)
(* those getMarketData builds: probability equals price in every outcome.  *)
(***************************************************************************)
EvalIds == {"a1", "a2"}

NoResponse == [kind |-> "none"]

FreshHistory ==
    /\ marketCalls = [s \in Slugs |-> 0]
    /\ userCalls = [u \in Users |-> 0]
    /\ fetched = {}
    /\ seen = EmptyMap
    /\ triggered = {}
    /\ skipped = {}
    /\ dispatched = {}
    /\ updated = {}
    /\ counted = {}
    /\ failedAt = {}

ResetHistory ==
    /\ marketCalls' = [s \in Slugs |-> 0]
    /\ userCalls' = [u \in Users |-> 0]
    /\ fetched' = {}
    /\ seen' = EmptyMap
    /\ triggered' = {}
    /\ skipped' = {}
    /\ dispatched' = {}
    /\ updated' = {}
    /\ counted' = {}
    /\ failedAt' = {}

MaxRequests == 2

RequestIds == 1..MaxRequests

Idle == [pc |-> "idle"]

Done == [pc |-> "done"]

\* No server action of the dashboard is ever submitted.
NoRequests ==
    /\ profiles = [u \in Users |-> FALSE]
    /\ requests = [r \in RequestIds |-> Idle]

\* No AlertBuilder is mounted.
NoBuilder ==
    /\ ruleOperator = "AND"
    /\ conditions = <<>>

NoDashboard == NoRequests /\ NoBuilder

\* No request is ever made: the evaluators are called on their own.
NoBatch ==
    /\ NoDashboard
    /\ cronSecret = "s3cret"
    /\ db = <<>>
    /\ pc = "idle"
    /\ alerts = <<>>
    /\ idx = 0
    /\ processed = 0
    /\ response = NoResponse
    /\ FreshHistory

PresetSnapshots ==
    {m \in Snapshots : \A i \in DOMAIN m.outcomes : m.outcomes[i].probability = m.outcomes[i].price}

NoCall == [fn |-> "none"]

InitPreset ==
    /\ marketCache = EmptyMap
    /\ favoriteOutcomeCache = EmptyMap
    /\ volumeCache = EmptyMap
    /\ userEmailCache = EmptyMap
    /\ call = NoCall
    /\ NoBatch

CallWhale(alertId, market) ==
    LET r == evaluateWhalePreset(volumeCache, alertId, market)
    IN  /\ volumeCache' = r.vc
        /\ call' = [market |-> market, alertId |-> alertId, ret |-> r.ret,
                    fn |-> "evaluateWhalePreset", before |-> volumeCache]
        /\ UNCHANGED <<marketCache, favoriteOutcomeCache, userEmailCache, dashboard, batch>>

CallFlip(alertId, market) ==
    LET r == evaluateFlipPreset(favoriteOutcomeCache, alertId, market)
    IN  /\ favoriteOutcomeCache' = r.fc
        /\ call' = [market |-> market, alertId |-> alertId, ret |-> r.ret,
                    fn |-> "evaluateFlipPreset", before |-> favoriteOutcomeCache]
        /\ UNCHANGED <<marketCache, volumeCache, userEmailCache, dashboard, batch>>

NextWhale == \E alertId \in EvalIds, market \in PresetSnapshots : CallWhale(alertId, market)

NextFlip == \E alertId \in EvalIds, market \in PresetSnapshots : CallFlip(alertId, market)

SpecWhale == InitPreset /\ [][NextWhale]_vars

SpecFlip == InitPreset /\ [][NextFlip]_vars

(***************************************************************************)
(* The stateless evaluators applied once to an input drawn from the        *)
(* bounded domains: a condition, a rule, or a custom alert row.            *)
(***************************************************************************)
RuleConditions == {c \in Conditions : c.metric # "other" /\ c.value = 60}

Rules == [operator : RuleOperators, conditions : SeqsUpTo(RuleConditions, MaxConditions)]

\* Custom alerts as the alerts table can hold them: with a rule or without.
CustomAlerts ==
    [id : EvalIds, type : {"CUSTOM"}, preset_type : {Null},
     custom_settings : {<<>>} \cup {<<r>> : r \in Rules}]

ConditionInputs ==
    [market : Snapshots, condition : Conditions, ret : {FALSE},
     fn : {"evaluateCondition"}, done : {FALSE}]

RuleInputs ==
    [market : PresetSnapshots, rule : Rules, ret : {FALSE},
     fn : {"evaluateCustomRule"}, done : {FALSE}]

AlertInputs ==
    [market : PresetSnapshots, ret : {FALSE}, alert : CustomAlerts,
     fn : {"evaluateAlert"}, done : {FALSE}]

InitEval ==
    /\ marketCache = EmptyMap
    /\ favoriteOutcomeCache = EmptyMap
    /\ volumeCache = EmptyMap
    /\ userEmailCache = EmptyMap
    /\ call \in ConditionInputs \cup RuleInputs \cup AlertInputs
    /\ NoBatch

CallCondition ==
    /\ call.fn = "evaluateCondition" /\ ~call.done
    /\ call' = [call EXCEPT !.done = TRUE,
                            !.ret = evaluateCondition(call.condition, call.market)]
    /\ UNCHANGED <<caches, dashboard, batch>>

CallRule ==
    /\ call.fn = "evaluateCustomRule" /\ ~call.done
    /\ call' = [call EXCEPT !.done = TRUE,
                            !.ret = evaluateCustomRule(call.rule, call.market)]
    /\ UNCHANGED <<caches, dashboard, batch>>

CallAlert ==
    /\ call.fn = "evaluateAlert" /\ ~call.done
    /\ LET r == evaluateAlert(volumeCache, favoriteOutcomeCache, call.alert, call.market)
       IN  /\ volumeCache' = r.vc
           /\ favoriteOutcomeCache' = r.fc
           /\ call' = [call EXCEPT !.done = TRUE, !.ret = r.ret]
    /\ UNCHANGED <<marketCache, userEmailCache, dashboard, batch>>

NextEval == CallCondition \/ CallRule \/ CallAlert

SpecEval == InitEval /\ [][NextEval]_vars

(***************************************************************************)
(* The cron route POST, one invocation at a time in one process.  Every    *)
(* action runs from one suspension point of POST to the next.              *)
(***************************************************************************)
AlertIdAt(i) == <<"a1", "a2", "a3", "a4">>[i]

\* A custom rule of the table: total volume above 60.
TableRule == [operator |-> "OR",
              conditions |-> <<[metric |-> "volume", operator |-> "gt", value |-> 60]>>]

\* What a row holds besides its id, owner and market.
AlertKinds ==
    { [type |-> "PRESET", preset_type |-> "WHALE", custom_settings |-> <<>>],
      [type |-> "PRESET", preset_type |-> "FLIP", custom_settings |-> <<>>],
      [type |-> "CUSTOM", preset_type |-> Null, custom_settings |-> <<TableRule>>],
      [type |-> "CUSTOM", preset_type |-> Null, custom_settings |-> <<>>] }

RowChoices == [kind : AlertKinds, user_id : Users, market_slug : Slugs]

MkRow(i, c) ==
    [id |-> AlertIdAt(i), type |-> c.kind.type, preset_type |-> c.kind.preset_type,
     custom_settings |-> c.kind.custom_settings, user_id |-> c.user_id,
     market_slug |-> c.market_slug]

\* The tables of up to MaxAlerts rows.  Users and markets are interchangeable
\* names, so the first row is taken to belong to u1 and to watch m1.
AlertTables ==
    {[i \in DOMAIN cs |-> MkRow(i, cs[i])] :
        cs \in {c \in SeqsUpTo(RowChoices, MaxAlerts) :
                  c # <<>> => c[1].user_id = "u1" /\ c[1].market_slug = "m1"}}

\* Snapshots the market-data collaborator answers with: a quiet market and
\* one with a large outcome and a higher volume.
QuietMarket ==
    [totalVolume |-> 60,
     outcomes |-> <<[price |-> 60, probability |-> 60, volume |-> 9999, id |-> "o1"]>>,
     favoriteOutcomeId |-> "o1"]

HotMarket ==
    [totalVolume |-> 73,
     outcomes |-> <<[price |-> 20, probability |-> 20, volume |-> 10000, id |-> "o1"],
                    [price |-> 60, probability |-> 60, volume |-> 9999, id |-> "o2"]>>,
     favoriteOutcomeId |-> "o2"]

\* The quiet market after its volume rose, still without a large outcome.
RisingMarket ==
    [totalVolume |-> 73,
     outcomes |-> <<[price |-> 60, probability |-> 60, volume |-> 9999, id |-> "o1"]>>,
     favoriteOutcomeId |-> "o1"]

UpstreamSnapshots == {QuietMarket, HotMarket, RisingMarket}

Pending == [state |-> "pending"]

Rejected == [state |-> "rejected"]

Fulfilled(v) == [value |-> v, state |-> "fulfilled"]

Success(n) == [processed |-> n, kind |-> "success"]

CronFailed == [kind |-> "CRON_FAILED"]

Unauthorized == [kind |-> "UNAUTHORIZED"]

Unhandled == [kind |-> "UNHANDLED_ERROR"]

Init ==
    /\ marketCache = EmptyMap
    /\ favoriteOutcomeCache = EmptyMap
    /\ volumeCache = EmptyMap
    /\ userEmailCache = EmptyMap
    /\ call = NoCall
    /\ NoDashboard
    /\ cronSecret \in {"s3cret", Null}
    /\ db \in AlertTables
    /\ pc = "idle"
    /\ alerts = <<>>
    /\ idx = 0
    /\ processed = 0
    /\ response = NoResponse
    /\ FreshHistory

\* The Authorization header: absent, or its text cut at the first "Bearer ".
Headers ==
    { [present |-> FALSE, parts |-> <<>>],
      [present |-> TRUE, parts |-> <<"Bearer ", "s3cret">>],
      [present |-> TRUE, parts |-> <<"s3cret">>],
      [present |-> TRUE, parts |-> <<"Bearer ", "wrong">>] }

\* secret?.replace('Bearer ', '').trim()
BearerToken(header) ==
    IF ~header.present THEN <<>>
    ELSE IF header.parts # <<>> /\ Head(header.parts) = "Bearer " THEN Tail(header.parts)
    ELSE header.parts

\* isCronAuthorized accepting every request that carries the header.
isCronAuthorized_AnyHeader(header) ==
    IF cronSecret = Null THEN "throws"
    ELSE IF header.present THEN "true"
    ELSE "false"

\* "throws" when the secret is not configured.
isCronAuthorized(header) ==
    IF cronSecret = Null THEN "throws"
    ELSE IF header.present /\ BearerToken(header) = <<cronSecret>> THEN "true"
    ELSE "false"

\* fetchMarket without the cache lookup: every call goes upstream.
\* fetchMarket dropping a failed entry and fetching again.
fetchMarket_RetryRejected(cache, slug) ==
    IF MapHas(cache, slug) /\ cache[slug] # Rejected
    THEN [cache |-> cache, called |-> FALSE]
    ELSE [cache |-> MapSet(cache, slug, Pending), called |-> TRUE]

fetchMarket_NoLookup(cache, slug) == [cache |-> MapSet(cache, slug, Pending), called |-> TRUE]

\* The cache after the call, and whether getMarketData was called.
fetchMarket(cache, slug) ==
    IF MapHas(cache, slug)
    THEN [cache |-> cache, called |-> FALSE]
    ELSE [cache |-> MapSet(cache, slug, Pending), called |-> TRUE]

\* resolveUserEmail without the cache lookup.
resolveUserEmail_NoLookup(cache, userId) ==
    [cache |-> MapSet(cache, userId, Pending), called |-> TRUE]

\* The cache after the call, and whether getUserById was called.
resolveUserEmail(cache, userId) ==
    IF MapHas(cache, userId)
    THEN [cache |-> cache, called |-> FALSE]
    ELSE [cache |-> MapSet(cache, userId, Pending), called |-> TRUE]

\* The then-handler of resolveUserEmail: an error or a missing address is null.
UserOutcomes == {"email", "noemail", "error"}

ResolvedEmail(outcome) == IF outcome = "email" THEN "user@example.com" ELSE Null

HasRecipient_Always(recipient) == TRUE

\* if (!recipient) continue
HasRecipient(recipient) == recipient # Null

\* emails.send: delivered, answered with an error object, or rejected.
SendOutcomes == {"sent", "error", "rejected"}

\* What the awaited emails.send does in POST: nothing reads its result.
emailsSend(outcome) == IF outcome = "rejected" THEN "throws" ELSE "returns"

MarkOutcomes == {"ok", "error"}

\* markAlertTriggered rethrowing the error of the update.
markAlertTriggered_Throws(outcome) == IF outcome = "error" THEN "throws" ELSE "returns"

\* markAlertTriggered logs the error of the update and returns.
markAlertTriggered(outcome) == "returns"

\* A loop that takes the alert before position i again.
Iterate_Repeat(i) ==
    IF i > Len(alerts')
    THEN /\ pc' = "idle"
         /\ response' = Success(processed')
         /\ UNCHANGED <<idx, marketCache, marketCalls, fetched>>
    ELSE LET again == IF i > 1 THEN i - 1 ELSE i
             slug == alerts'[again].market_slug
             f == fetchMarket(marketCache, slug)
         IN  /\ pc' = "market"
             /\ idx' = again
             /\ marketCache' = f.cache
             /\ marketCalls' = IF f.called
                               THEN [marketCalls EXCEPT ![slug] = @ + 1]
                               ELSE marketCalls
             /\ fetched' = fetched \cup {again}
             /\ UNCHANGED response

\* The loop goes to position i: the response when the alerts are exhausted,
\* the fetchMarket call for alerts[i] otherwise.
Iterate(i) ==
    IF i > Len(alerts')
    THEN /\ pc' = "idle"
         /\ response' = Success(processed')
         /\ UNCHANGED <<idx, marketCache, marketCalls, fetched>>
    ELSE LET slug == alerts'[i].market_slug
             f == fetchMarket(marketCache, slug)
         IN  /\ pc' = "market"
             /\ idx' = i
             /\ marketCache' = f.cache
             /\ marketCalls' = IF f.called
                               THEN [marketCalls EXCEPT ![slug] = @ + 1]
                               ELSE marketCalls
             /\ fetched' = fetched \cup {i}
             /\ UNCHANGED response

\* A per-alert catch: the failure is recorded and the loop goes on.
Fail_Skip(what) ==
    /\ failedAt' = failedAt \cup {what}
    /\ UNCHANGED <<alerts, processed>>
    /\ Iterate(idx + 1)
    /\ UNCHANGED <<favoriteOutcomeCache, volumeCache, userEmailCache, call, cronSecret, db, dashboard,
                   userCalls, seen, triggered, skipped, dispatched, updated, counted>>

\* The catch of POST: the failed call `what` ends the invocation.
Fail(what) ==
    /\ pc' = "idle"
    /\ response' = CronFailed
    /\ failedAt' = failedAt \cup {what}
    /\ UNCHANGED <<caches, call, cronSecret, db, dashboard, alerts, idx, processed, marketCalls,
                   userCalls, fetched, seen, triggered, skipped, dispatched, updated, counted>>

\* POST creating the market snapshot cache afresh.
Start_FreshMarketCache(header) ==
    /\ pc = "idle"
    /\ LET a == isCronAuthorized(header)
       IN  /\ pc' = IF a = "true" THEN "load" ELSE "idle"
           /\ response' = IF a = "true" THEN NoResponse
                          ELSE IF a = "false" THEN Unauthorized ELSE Unhandled
    /\ alerts' = <<>>
    /\ idx' = 0
    /\ processed' = 0
    /\ ResetHistory
    /\ marketCache' = EmptyMap
    /\ UNCHANGED <<favoriteOutcomeCache, volumeCache, userEmailCache, call, cronSecret, db, dashboard>>

Start(header) ==
    /\ pc = "idle"
    /\ LET a == isCronAuthorized(header)
       IN  /\ pc' = IF a = "true" THEN "load" ELSE "idle"
           /\ response' = IF a = "true" THEN NoResponse
                          ELSE IF a = "false" THEN Unauthorized ELSE Unhandled
    /\ alerts' = <<>>
    /\ idx' = 0
    /\ processed' = 0
    /\ ResetHistory
    /\ UNCHANGED <<caches, call, cronSecret, db, dashboard>>

\* Between two invocations the process is replaced by a new one: the module
\* is loaded again and its four maps are new.
Restart ==
    /\ pc = "idle"
    /\ marketCache' = EmptyMap
    /\ favoriteOutcomeCache' = EmptyMap
    /\ volumeCache' = EmptyMap
    /\ userEmailCache' = EmptyMap
    /\ response' = NoResponse
    /\ alerts' = <<>>
    /\ idx' = 0
    /\ processed' = 0
    /\ ResetHistory
    /\ UNCHANGED <<call, cronSecret, db, dashboard, pc>>

LoadFails ==
    /\ pc = "load"
    /\ Fail(<<"alerts", 0>>)

Load ==
    /\ pc = "load"
    /\ alerts' = db
    /\ processed' = 0
    /\ Iterate(1)
    /\ UNCHANGED <<favoriteOutcomeCache, volumeCache, userEmailCache, call, cronSecret, db, dashboard,
                   userCalls, seen, triggered, skipped, dispatched, updated, counted, failedAt>>

SettleMarket(slug, outcome) ==
    /\ MapHas(marketCache, slug)
    /\ marketCache[slug] = Pending
    /\ marketCache' = [marketCache EXCEPT ![slug] = outcome]
    /\ UNCHANGED <<favoriteOutcomeCache, volumeCache, userEmailCache, call, dashboard, batch>>

MarketRejected ==
    /\ pc = "market"
    /\ marketCache[alerts[idx].market_slug] = Rejected
    /\ Fail(<<"market", idx>>)

\* The recipient looked up before the alert is evaluated.
EvaluateQuiet_LooksUp ==
    /\ pc = "market"
    /\ marketCache[alerts[idx].market_slug].state = "fulfilled"
    /\ LET market == marketCache[alerts[idx].market_slug].value
           r == evaluateAlert(volumeCache, favoriteOutcomeCache, alerts[idx], market)
           u == resolveUserEmail(userEmailCache, alerts[idx].user_id)
       IN  /\ ~r.ret
           /\ volumeCache' = r.vc
           /\ favoriteOutcomeCache' = r.fc
           /\ seen' = MapSet(seen, idx, market)
           /\ userEmailCache' = u.cache
           /\ userCalls' = IF u.called
                           THEN [userCalls EXCEPT ![alerts[idx].user_id] = @ + 1]
                           ELSE userCalls
    /\ UNCHANGED <<alerts, processed>>
    /\ Iterate(idx + 1)
    /\ UNCHANGED <<call, cronSecret, db, dashboard, triggered, skipped, dispatched, updated,
                   counted, failedAt>>

\* The snapshot arrives, the alert is evaluated and does not trigger.
EvaluateQuiet ==
    /\ pc = "market"
    /\ marketCache[alerts[idx].market_slug].state = "fulfilled"
    /\ LET market == marketCache[alerts[idx].market_slug].value
           r == evaluateAlert(volumeCache, favoriteOutcomeCache, alerts[idx], market)
       IN  /\ ~r.ret
           /\ volumeCache' = r.vc
           /\ favoriteOutcomeCache' = r.fc
           /\ seen' = MapSet(seen, idx, market)
    /\ UNCHANGED <<alerts, processed>>
    /\ Iterate(idx + 1)
    /\ UNCHANGED <<userEmailCache, call, cronSecret, db, dashboard, userCalls, triggered, skipped,
                   dispatched, updated, counted, failedAt>>

\* The snapshot arrives, the alert triggers and its recipient is looked up.
EvaluateTriggered ==
    /\ pc = "market"
    /\ marketCache[alerts[idx].market_slug].state = "fulfilled"
    /\ LET market == marketCache[alerts[idx].market_slug].value
           r == evaluateAlert(volumeCache, favoriteOutcomeCache, alerts[idx], market)
           u == resolveUserEmail(userEmailCache, alerts[idx].user_id)
       IN  /\ r.ret
           /\ volumeCache' = r.vc
           /\ favoriteOutcomeCache' = r.fc
           /\ seen' = MapSet(seen, idx, market)
           /\ userEmailCache' = u.cache
           /\ userCalls' = IF u.called
                           THEN [userCalls EXCEPT ![alerts[idx].user_id] = @ + 1]
                           ELSE userCalls
    /\ triggered' = triggered \cup {idx}
    /\ pc' = "user"
    /\ UNCHANGED <<marketCache, call, cronSecret, db, dashboard, alerts, idx, processed, response,
                   marketCalls, fetched, skipped, dispatched, updated, counted, failedAt>>

SettleUser(userId, outcome) ==
    /\ MapHas(userEmailCache, userId)
    /\ userEmailCache[userId] = Pending
    /\ userEmailCache' = [userEmailCache EXCEPT ![userId] = Fulfilled(ResolvedEmail(outcome))]
    /\ failedAt' = IF outcome = "error" THEN failedAt \cup {<<"user", idx>>} ELSE failedAt
    /\ UNCHANGED <<marketCache, favoriteOutcomeCache, volumeCache, call, dashboard, cronSecret,
                   db, pc, alerts, idx, processed, response, marketCalls, userCalls, fetched,
                   seen, triggered, skipped, dispatched, updated, counted>>

\* The skipped alert counted as processed.
SkipAlert_Counted ==
    /\ pc = "user"
    /\ userEmailCache[alerts[idx].user_id].state = "fulfilled"
    /\ ~HasRecipient(userEmailCache[alerts[idx].user_id].value)
    /\ skipped' = skipped \cup {idx}
    /\ processed' = processed + 1
    /\ UNCHANGED alerts
    /\ Iterate(idx + 1)
    /\ UNCHANGED <<favoriteOutcomeCache, volumeCache, userEmailCache, call, cronSecret, db, dashboard,
                   userCalls, seen, triggered, dispatched, updated, counted, failedAt>>

\* No recipient: the alert is skipped.
SkipAlert ==
    /\ pc = "user"
    /\ userEmailCache[alerts[idx].user_id].state = "fulfilled"
    /\ ~HasRecipient(userEmailCache[alerts[idx].user_id].value)
    /\ skipped' = skipped \cup {idx}
    /\ UNCHANGED <<alerts, processed>>
    /\ Iterate(idx + 1)
    /\ UNCHANGED <<favoriteOutcomeCache, volumeCache, userEmailCache, call, cronSecret, db, dashboard,
                   userCalls, seen, triggered, dispatched, updated, counted, failedAt>>

\* emails.send called and not awaited: the loop goes on at once.
Dispatch_NotAwaited ==
    /\ pc = "user"
    /\ userEmailCache[alerts[idx].user_id].state = "fulfilled"
    /\ HasRecipient(userEmailCache[alerts[idx].user_id].value)
    /\ dispatched' = dispatched \cup {idx}
    /\ UNCHANGED <<alerts, processed>>
    /\ Iterate(idx + 1)
    /\ UNCHANGED <<favoriteOutcomeCache, volumeCache, userEmailCache, call, cronSecret, db, dashboard,
                   userCalls, seen, triggered, skipped, updated, counted, failedAt>>

\* A recipient: the notification is composed and emails.send is called.
Dispatch ==
    /\ pc = "user"
    /\ userEmailCache[alerts[idx].user_id].state = "fulfilled"
    /\ HasRecipient(userEmailCache[alerts[idx].user_id].value)
    /\ dispatched' = dispatched \cup {idx}
    /\ pc' = "send"
    /\ UNCHANGED <<caches, call, cronSecret, db, dashboard, alerts, idx, processed, response, marketCalls,
                   userCalls, fetched, seen, triggered, skipped, updated, counted, failedAt>>

\* emails.send settles: a rejection reaches the catch of POST, anything else
\* is followed by the timestamp update.
SendSettled(outcome) ==
    /\ pc = "send"
    /\ IF emailsSend(outcome) = "throws"
       THEN Fail(<<"send", idx>>)
       ELSE /\ failedAt' = IF outcome = "error" THEN failedAt \cup {<<"send", idx>>}
                           ELSE failedAt
            /\ updated' = updated \cup {idx}
            /\ pc' = "mark"
            /\ UNCHANGED <<caches, call, cronSecret, db, dashboard, alerts, idx, processed, response,
                           marketCalls, userCalls, fetched, seen, triggered, skipped,
                           dispatched, counted>>

\* update({last_triggered_at}).eq('id', alertId) on a table.  POST never
\* reads the column, and only the tables of SpecRepeat carry it.
WithTriggerTime(table, alertId) ==
    [k \in DOMAIN table |->
        IF table[k].id = alertId /\ "last_triggered_at" \in DOMAIN table[k]
        THEN [table[k] EXCEPT !.last_triggered_at = TriggeredAt]
        ELSE table[k]]

\* The update answers, having written the timestamp unless it failed:
\* processed is incremented and the loop goes on.
Marked(outcome) ==
    /\ pc = "mark"
    /\ IF markAlertTriggered(outcome) = "throws"
       THEN Fail(<<"update", idx>>)
       ELSE /\ failedAt' = IF outcome = "error" THEN failedAt \cup {<<"update", idx>>}
                           ELSE failedAt
            /\ db' = IF outcome = "ok" THEN WithTriggerTime(db, alerts[idx].id) ELSE db
            /\ processed' = processed + 1
            /\ counted' = counted \cup {idx}
            /\ UNCHANGED alerts
            /\ Iterate(idx + 1)
            /\ UNCHANGED <<favoriteOutcomeCache, volumeCache, userEmailCache, call,
                           cronSecret, dashboard, userCalls, seen, triggered, skipped, dispatched,
                           updated>>

Next ==
    \/ \E header \in Headers : Start(header)
    \/ Restart
    \/ LoadFails
    \/ Load
    \/ \E slug \in Slugs, m \in UpstreamSnapshots : SettleMarket(slug, Fulfilled(m))
    \/ \E slug \in Slugs : SettleMarket(slug, Rejected)
    \/ MarketRejected
    \/ EvaluateQuiet
    \/ EvaluateTriggered
    \/ \E userId \in Users, outcome \in UserOutcomes : SettleUser(userId, outcome)
    \/ SkipAlert
    \/ Dispatch
    \/ \E outcome \in SendOutcomes : SendSettled(outcome)
    \/ \E outcome \in MarkOutcomes : Marked(outcome)

Spec == Init /\ [][Next]_vars

\* The tables whose rows carry the column last_triggered_at, not set yet:
\* a custom alert with a rule, followed by preset alerts, which write the
\* alert state store.
TimedRow(row) ==
    [id |-> row.id, type |-> row.type, preset_type |-> row.preset_type,
     custom_settings |-> row.custom_settings, last_triggered_at |-> Null,
     user_id |-> row.user_id, market_slug |-> row.market_slug]

TimedTables ==
    {[i \in DOMAIN t |-> TimedRow(t[i])] :
        t \in {x \in AlertTables :
                 /\ x # <<>>
                 /\ x[1].type = "CUSTOM" /\ x[1].custom_settings # <<>>
                 /\ \A i \in DOMAIN x : i > 1 => x[i].type = "PRESET"}}

InitRepeat ==
    /\ marketCache = EmptyMap
    /\ favoriteOutcomeCache = EmptyMap
    /\ volumeCache = EmptyMap
    /\ userEmailCache = EmptyMap
    /\ call = NoCall
    /\ NoDashboard
    /\ cronSecret = "s3cret"
    /\ db \in TimedTables
    /\ pc = "idle"
    /\ alerts = <<>>
    /\ idx = 0
    /\ processed = 0
    /\ response = NoResponse
    /\ FreshHistory

\* Invocation after invocation on a table that keeps the timestamps.
SpecRepeat == InitRepeat /\ [][Next]_vars

\* The steps of an invocation that is under way: an external call settles,
\* or POST goes on from the await whose promise has settled.
Progress ==
    \/ LoadFails
    \/ Load
    \/ \E slug \in Slugs, m \in UpstreamSnapshots : SettleMarket(slug, Fulfilled(m))
    \/ \E slug \in Slugs : SettleMarket(slug, Rejected)
    \/ MarketRejected
    \/ EvaluateQuiet
    \/ EvaluateTriggered
    \/ \E userId \in Users, outcome \in UserOutcomes : SettleUser(userId, outcome)
    \/ SkipAlert
    \/ Dispatch
    \/ \E outcome \in SendOutcomes : SendSettled(outcome)
    \/ \E outcome \in MarkOutcomes : Marked(outcome)

\* Every external call settles, and the event loop runs a continuation
\* whose promise has settled.
\* The secret is configured, as it is for every invocation that gets past
\* isCronAuthorized.
InitLive == Init /\ cronSecret # Null

SpecLive == InitLive /\ [][Next]_vars /\ WF_vars(Progress)

(***************************************************************************)
(* Both preset evaluators called in any order on one alert state store,    *)
(* with the snapshots of the batch and one without outcomes.               *)
(***************************************************************************)
\* A snapshot without outcomes has no favorite.
EmptyMarket == [totalVolume |-> 72, outcomes |-> <<>>, favoriteOutcomeId |-> Null]

StoreSnapshots == {QuietMarket, HotMarket, RisingMarket, EmptyMarket}

NextPreset ==
    \/ \E alertId \in EvalIds, market \in StoreSnapshots : CallWhale(alertId, market)
    \/ \E alertId \in EvalIds, market \in StoreSnapshots : CallFlip(alertId, market)

SpecPreset == InitPreset /\ [][NextPreset]_vars

(***************************************************************************)
(* getMarketData: the snapshot built from the answer of the upstream       *)
(* events API.  The answer is drawn from the bounded domains and the       *)
(* function is applied to it once.                                         *)
(***************************************************************************)
MaxUpstreamOutcomes == 3

\* outcomePrices and outcomeVolumes of the upstream market: arrays that may
\* be shorter than outcomes.
UpstreamPrices == {40, 60}

UpstreamVolumes == {5, 9}

\* GammaMarket; outcomes stands for the length of the label array, volume
\* is <<>> when the field is not a number and <<v>> when it is the number v.
GammaMarkets ==
    UNION {[volume : {<<>>, <<72>>}, outcomes : {n},
            outcomePrices : SeqsUpTo(UpstreamPrices, n), outcomeVolumes : SeqsUpTo(UpstreamVolumes, n)] :
              n \in 0..MaxUpstreamOutcomes}

\* What fetch and response.json() give: a status that is not ok, no event,
\* an event without market, or an event with its first market <<m>>.
Payloads ==
    {[market |-> <<>>, kind |-> k] : k \in {"not ok", "no event", "no market"}}
        \cup {[market |-> <<m>>, kind |-> "market"] : m \in GammaMarkets}

\* array?.[index] ?? 0
OrZero(array, index) == IF index + 1 \in DOMAIN array THEN array[index + 1] ELSE 0

\* `${market.id}-${index}` for the one market "mk".
OutcomeIdOf(index) == "mk-" \o ToString(index)

normalizeOutcome(market, index) ==
    LET price == OrZero(market.outcomePrices, index)
    IN  [price |-> price, probability |-> price,
         volume |-> OrZero(market.outcomeVolumes, index), id |-> OutcomeIdOf(index)]

\* A comparator that forgets the probability.
compareOutcomes_VolumeOnly(a, b) == b.volume - a.volume

\* The comparator handed to sort: negative when a comes first.
compareOutcomes(a, b) ==
    IF b.volume # a.volume THEN b.volume - a.volume ELSE b.probability - a.probability

\* Array.prototype.sort is stable: x goes behind every element that does
\* not have to come after it.
RECURSIVE InsertSorted(_, _)
InsertSorted(x, sorted) ==
    IF sorted = <<>> THEN <<x>>
    ELSE IF compareOutcomes(Head(sorted), x) <= 0
         THEN <<Head(sorted)>> \o InsertSorted(x, Tail(sorted))
         ELSE <<x>> \o sorted

RECURSIVE SortOutcomes(_)
SortOutcomes(outcomes) ==
    IF outcomes = <<>> THEN <<>>
    ELSE InsertSorted(outcomes[Len(outcomes)], SortOutcomes(SubSeq(outcomes, 1, Len(outcomes) - 1)))

\* slice(0, 2)
SliceTop(outcomes) == SubSeq(outcomes, 1, IF Len(outcomes) < MaxOutcomes THEN Len(outcomes) ELSE MaxOutcomes)

\* The reduce that picks the favorite: the first outcome, then any later one
\* with a strictly higher probability.  Null stands for null.
RECURSIVE favoriteOutcome(_, _)
favoriteOutcome(favorite, outcomes) ==
    IF outcomes = <<>> THEN favorite
    ELSE LET current == Head(outcomes)
         IN  IF favorite = <<>> \/ current.probability > favorite[1].probability
             THEN favoriteOutcome(<<current>>, Tail(outcomes))
             ELSE favoriteOutcome(favorite, Tail(outcomes))

RECURSIVE SumVolumes(_)
SumVolumes(outcomes) ==
    IF outcomes = <<>> THEN 0 ELSE Head(outcomes).volume + SumVolumes(Tail(outcomes))

getMarketData(payload) ==
    IF payload.kind # "market" THEN Rejected
    ELSE LET market == payload.market[1]
             totalOutcomes == market.outcomes
         IN  IF totalOutcomes = 0 THEN Rejected
             ELSE LET normalizedOutcomes ==
                          [i \in 1..totalOutcomes |-> normalizeOutcome(market, i - 1)]
                      sortedOutcomes == SliceTop(SortOutcomes(normalizedOutcomes))
                      favorite == favoriteOutcome(<<>>, sortedOutcomes)
                      totalVolume == IF market.volume # <<>> THEN market.volume[1]
                                     ELSE SumVolumes(sortedOutcomes)
                  IN  Fulfilled([totalVolume |-> totalVolume, outcomes |-> sortedOutcomes,
                                 favoriteOutcomeId |-> IF favorite = <<>> THEN Null
                                                       ELSE favorite[1].id])

MarketInputs ==
    [fn : {"getMarketData"}, done : {FALSE}, payload : Payloads, result : {Pending}]

InitMarket ==
    /\ marketCache = EmptyMap
    /\ favoriteOutcomeCache = EmptyMap
    /\ volumeCache = EmptyMap
    /\ userEmailCache = EmptyMap
    /\ call \in MarketInputs
    /\ NoBatch

CallGetMarketData ==
    /\ call.fn = "getMarketData" /\ ~call.done
    /\ call' = [call EXCEPT !.done = TRUE, !.result = getMarketData(call.payload)]
    /\ UNCHANGED <<caches, dashboard, batch>>

NextMarket == CallGetMarketData

SpecMarket == InitMarket /\ [][NextMarket]_vars

(***************************************************************************)
(* The server actions of the dashboard: createPresetAlert,                 *)
(* createCustomAlert and deleteAlert.  Requests of the signed-in user u1   *)
(* run concurrently; every action runs from one await of a request to its  *)
(* next.  A text is the sequence of its pieces, " " being white space.     *)
(***************************************************************************)
MAX_FREE_ALERTS == 1

cron == <<cronSecret, pc, alerts, idx, processed, response, history>>

RECURSIVE TrimStart(_)
TrimStart(text) ==
    IF text # <<>> /\ Head(text) = " " THEN TrimStart(Tail(text)) ELSE text

RECURSIVE TrimEnd(_)
TrimEnd(text) ==
    IF text # <<>> /\ text[Len(text)] = " "
    THEN TrimEnd(SubSeq(text, 1, Len(text) - 1))
    ELSE text

\* String(value ?? '').trim(); a missing form field is <<>> as well.
Trim(text) == TrimEnd(TrimStart(text))

SlugTexts == {<<>>, <<" ">>, <<"m1">>, <<" ", "m1", " ">>}

\* The signed-in user of a request: none, or u1.
Sessions == {Null, "u1"}

PresetForms == [preset_type : {Null, "WHALE", "FLIP", "SHARK"}, market_slug : SlugTexts]

EmptyRuleText == "{\"operator\":\"AND\",\"conditions\":[]}"

TableRuleText ==
    "{\"operator\":\"OR\",\"conditions\":[{\"metric\":\"volume\",\"operator\":\"gt\",\"value\":60}]}"

\* A text in which conditions is a string, not an array.
StringRuleText == "{\"operator\":\"AND\",\"conditions\":\"x\"}"

\* The custom_settings field: not a string (absent), or a text.
RawRules ==
    { [text |-> "", isString |-> FALSE],
      [text |-> "", isString |-> TRUE],
      [text |-> "{", isString |-> TRUE],
      [text |-> "null", isString |-> TRUE],
      [text |-> "{}", isString |-> TRUE],
      [text |-> EmptyRuleText, isString |-> TRUE],
      [text |-> TableRuleText, isString |-> TRUE],
      [text |-> StringRuleText, isString |-> TRUE] }

CustomForms == [custom_settings : RawRules, market_slug : SlugTexts]

DeleteForms == [alert_id : {Null, "", "a1", "a2"}]

\* JSON.parse on the texts of RawRules: it throws, or returns null or an
\* object, whose conditions may be missing.  An array is the sequence of its
\* elements and a string the sequence of its characters [char |-> c], so
\* that Len is the length property of both.
JSONparse(text) ==
    CASE text = "null" -> [kind |-> "null"]
      [] text = "{}" -> [rule |-> <<>>, kind |-> "object", hasConditions |-> FALSE]
      [] text = EmptyRuleText ->
            [rule |-> <<[operator |-> "AND", conditions |-> <<>>]>>, kind |-> "object",
             hasConditions |-> TRUE]
      [] text = TableRuleText ->
            [rule |-> <<TableRule>>, kind |-> "object", hasConditions |-> TRUE]
      [] text = StringRuleText ->
            [rule |-> <<[operator |-> "AND", conditions |-> <<[char |-> "x"]>>]>>,
             kind |-> "object", hasConditions |-> TRUE]
      [] OTHER -> [kind |-> "throws"]

\* !rule || !rule.conditions?.length; a parse that throws leaves rule null.
RuleRejected(parsed) ==
    \/ parsed.kind # "object"
    \/ ~parsed.hasConditions
    \/ Len(parsed.rule[1].conditions) = 0

\* The rows of a user: select with eq('user_id', userId).
OwnedBy(table, userId) == {i \in DOMAIN table : table[i].user_id = userId}

\* (count ?? 0) < MAX_FREE_ALERTS
WithinQuota(count) == count < MAX_FREE_ALERTS

\* gen_random_uuid(): an id no row of the table carries.
FreshId(table) ==
    AlertIdAt(CHOOSE i \in 1..(Len(table) + 1) :
                 \A j \in DOMAIN table : table[j].id # AlertIdAt(i))

\* The checks of the alerts table on a new row.
RowAccepted(row) ==
    /\ row.type \in {"PRESET", "CUSTOM"}
    /\ row.preset_type \in {Null, "WHALE", "FLIP"}
    /\ \/ row.type = "PRESET" /\ row.preset_type # Null
       \/ row.type = "CUSTOM" /\ row.preset_type = Null

\* What a query of the dashboard answers with: data, or an error.
QueryOutcomes == {"ok", "error"}

\* Tables before any request: no row, a row of u1, or a row of u2.
DashboardTables ==
    {<<>>} \cup
    {<<MkRow(1, [kind |-> k, user_id |-> u, market_slug |-> "m1"])>> :
        u \in Users, k \in {x \in AlertKinds : x.custom_settings # <<>> \/ x.type = "PRESET"}}

InitDashboard ==
    /\ marketCache = EmptyMap
    /\ favoriteOutcomeCache = EmptyMap
    /\ volumeCache = EmptyMap
    /\ userEmailCache = EmptyMap
    /\ call = NoCall
    /\ cronSecret = "s3cret"
    /\ pc = "idle"
    /\ alerts = <<>>
    /\ idx = 0
    /\ processed = 0
    /\ response = NoResponse
    /\ FreshHistory
    /\ db \in DashboardTables
    /\ profiles \in {f \in [Users -> BOOLEAN] : ~f["u2"]}
    /\ requests = [r \in RequestIds |-> Idle]
    /\ NoBuilder

\* Requests are submitted in the order of their numbers.
Submittable(r) ==
    /\ requests[r] = Idle
    /\ r > 1 => requests[r - 1] # Idle

\* A request that passed its checks and awaits canCreateAlert.
Creating(user, row) == [pc |-> "profile", row |-> row, user |-> user]

\* createPresetAlert up to its call of canCreateAlert.
createPresetAlert(r, user, formData) ==
    /\ Submittable(r)
    /\ LET marketSlug == Trim(formData.market_slug)
           presetType == formData.preset_type
       IN  requests' = [requests EXCEPT ![r] =
              IF user = Null THEN Done
              ELSE IF marketSlug = <<>> \/ (presetType # "WHALE" /\ presetType # "FLIP")
                   THEN Done
                   ELSE Creating(user, [type |-> "PRESET", preset_type |-> presetType,
                                        custom_settings |-> <<>>,
                                        market_slug |-> marketSlug[1]])]
    /\ UNCHANGED <<caches, call, db, profiles, builder, cron>>

\* createCustomAlert up to its call of canCreateAlert.
createCustomAlert(r, user, formData) ==
    /\ Submittable(r)
    /\ LET marketSlug == Trim(formData.market_slug)
           rawRule == formData.custom_settings
           parsed == JSONparse(rawRule.text)
       IN  requests' = [requests EXCEPT ![r] =
              IF user = Null THEN Done
              ELSE IF marketSlug = <<>> \/ ~rawRule.isString \/ rawRule.text = ""
                   THEN Done
                   ELSE IF RuleRejected(parsed)
                        THEN Done
                        ELSE Creating(user, [type |-> "CUSTOM",
                                             preset_type |-> Null, custom_settings |-> parsed.rule,
                                             market_slug |-> marketSlug[1]])]
    /\ UNCHANGED <<caches, call, db, profiles, builder, cron>>

\* canCreateAlert: the profile is read; a pro user is allowed at once.
SelectProfile(r, outcome) ==
    /\ requests[r].pc = "profile"
    /\ LET is_pro == outcome = "ok" /\ profiles[requests[r].user]
       IN  requests' = [requests EXCEPT ![r].pc = IF is_pro THEN "insert" ELSE "count"]
    /\ UNCHANGED <<caches, call, db, profiles, builder, cron>>

\* canCreateAlert: the rows of the user are counted; the action returns when
\* the count is not below the quota.
CountAlerts(r, outcome) ==
    /\ requests[r].pc = "count"
    /\ LET count == IF outcome = "ok"
                    THEN Cardinality(OwnedBy(db, requests[r].user))
                    ELSE 0
       IN  requests' = [requests EXCEPT ![r] =
              IF WithinQuota(count) THEN [@ EXCEPT !.pc = "insert"] ELSE Done]
    /\ UNCHANGED <<caches, call, db, profiles, builder, cron>>

\* The insert of the row; its result is not read.
InsertAlert(r, outcome) ==
    /\ requests[r].pc = "insert"
    /\ LET row == requests[r].row
           new == [id |-> FreshId(db), type |-> row.type,
                   preset_type |-> row.preset_type, custom_settings |-> row.custom_settings,
                   user_id |-> requests[r].user,
                   market_slug |-> row.market_slug]
       IN  db' = IF outcome = "ok" /\ RowAccepted(new) THEN Append(db, new) ELSE db
    /\ requests' = [requests EXCEPT ![r] = Done]
    /\ UNCHANGED <<caches, call, profiles, builder, cron>>

\* deleteAlert up to its delete.
deleteAlert(r, user, formData) ==
    /\ Submittable(r)
    /\ LET alertId == formData.alert_id
       IN  requests' = [requests EXCEPT ![r] =
              IF user = Null THEN Done
              ELSE IF alertId = Null \/ alertId = "" THEN Done
              ELSE [pc |-> "delete", alertId |-> alertId, user |-> user]]
    /\ UNCHANGED <<caches, call, db, profiles, builder, cron>>

\* delete().eq('id', alertId).eq('user_id', user.id)
DeleteRows(r, outcome) ==
    /\ requests[r].pc = "delete"
    /\ LET Kept(row) == ~(row.id = requests[r].alertId /\ row.user_id = requests[r].user)
       IN  db' = IF outcome = "ok" THEN SelectSeq(db, Kept) ELSE db
    /\ requests' = [requests EXCEPT ![r] = Done]
    /\ UNCHANGED <<caches, call, profiles, builder, cron>>

NextDashboard ==
    \/ \E r \in RequestIds, user \in Sessions, formData \in PresetForms :
          createPresetAlert(r, user, formData)
    \/ \E r \in RequestIds, user \in Sessions, formData \in CustomForms :
          createCustomAlert(r, user, formData)
    \/ \E r \in RequestIds, user \in Sessions, formData \in DeleteForms :
          deleteAlert(r, user, formData)
    \/ \E r \in RequestIds, outcome \in QueryOutcomes : SelectProfile(r, outcome)
    \/ \E r \in RequestIds, outcome \in QueryOutcomes : CountAlerts(r, outcome)
    \/ \E r \in RequestIds, outcome \in QueryOutcomes : InsertAlert(r, outcome)
    \/ \E r \in RequestIds, outcome \in QueryOutcomes : DeleteRows(r, outcome)

SpecDashboard == InitDashboard /\ [][NextDashboard]_vars

(***************************************************************************)
(* AlertBuilder, the rule builder of the dashboard: its state after the    *)
(* first render with a defaultValue or none, and its handlers.             *)
(***************************************************************************)
MaxDrafts == 2

\* The ids generateId can return; the one returned is not in use.
DraftIds == 1..(MaxDrafts + 1)

generateId(drafts) == CHOOSE id \in DraftIds : \A i \in DOMAIN drafts : drafts[i].id # id

defaultCondition(drafts) ==
    [id |-> generateId(drafts), metric |-> "volume", operator |-> "gt", value |-> 0]

\* The defaultValue prop: <<>> when it is not passed, <<rule>> otherwise.
DefaultValues ==
    {<<>>} \cup
    {<<[operator |-> o, conditions |-> c]>> :
        o \in RuleOperators,
        c \in {<<>>, TableRule.conditions, TableRule.conditions \o TableRule.conditions}}

\* condition => ({...condition, id: generateId()}) over the conditions of
\* defaultValue.
RECURSIVE WithIds(_, _)
WithIds(list, drafts) ==
    IF list = <<>> THEN drafts
    ELSE WithIds(Tail(list),
                 Append(drafts, [id |-> generateId(drafts), metric |-> Head(list).metric,
                                 operator |-> Head(list).operator, value |-> Head(list).value]))

\* defaultValue?.conditions.map(...) ?? [defaultCondition()]
InitialConditions(defaultValue) ==
    IF defaultValue = <<>> THEN <<defaultCondition(<<>>)>>
    ELSE WithIds(defaultValue[1].conditions, <<>>)

\* defaultValue?.operator ?? 'AND'
InitialOperator(defaultValue) ==
    IF defaultValue = <<>> THEN "AND" ELSE defaultValue[1].operator

\* The rule the hidden input serializes: the drafts without their ids.
currentRule ==
    [operator |-> ruleOperator,
     conditions |-> [i \in DOMAIN conditions |->
                        [metric |-> conditions[i].metric, operator |-> conditions[i].operator,
                         value |-> conditions[i].value]]]

\* What the selects and the number input of a draft can change.
Patches ==
    {[field |-> "metric", to |-> "probability"], [field |-> "operator", to |-> "lt"]}

InitBuilder ==
    /\ marketCache = EmptyMap
    /\ favoriteOutcomeCache = EmptyMap
    /\ volumeCache = EmptyMap
    /\ userEmailCache = EmptyMap
    /\ call = NoCall
    /\ NoRequests
    /\ cronSecret = "s3cret"
    /\ db = <<>>
    /\ pc = "idle"
    /\ alerts = <<>>
    /\ idx = 0
    /\ processed = 0
    /\ response = NoResponse
    /\ FreshHistory
    /\ \E defaultValue \in DefaultValues :
          /\ ruleOperator = InitialOperator(defaultValue)
          /\ conditions = InitialConditions(defaultValue)

setRuleOperator(value) ==
    /\ ruleOperator' = value
    /\ UNCHANGED <<caches, call, profiles, requests, conditions, batch>>

handleConditionChange(id, patch) ==
    /\ conditions' =
          [i \in DOMAIN conditions |->
              IF conditions[i].id = id
              THEN IF patch.field = "metric"
                   THEN [conditions[i] EXCEPT !.metric = patch.to]
                   ELSE [conditions[i] EXCEPT !.operator = patch.to]
              ELSE conditions[i]]
    /\ UNCHANGED <<caches, call, profiles, requests, ruleOperator, batch>>

handleAddCondition ==
    /\ Len(conditions) < MaxDrafts
    /\ conditions' = Append(conditions, defaultCondition(conditions))
    /\ UNCHANGED <<caches, call, profiles, requests, ruleOperator, batch>>

handleRemoveCondition(id) ==
    /\ LET Other(condition) == condition.id # id
       IN  conditions' = IF Len(conditions) = 1 THEN conditions
                         ELSE SelectSeq(conditions, Other)
    /\ UNCHANGED <<caches, call, profiles, requests, ruleOperator, batch>>

NextBuilder ==
    \/ \E value \in RuleOperators : setRuleOperator(value)
    \/ \E id \in DraftIds, patch \in Patches : handleConditionChange(id, patch)
    \/ handleAddCondition
    \/ \E id \in DraftIds : handleRemoveCondition(id)

SpecBuilder == InitBuilder /\ [][NextBuilder]_vars

(***************************************************************************)
(* Claims about the evaluators.                                            *)
(***************************************************************************)
IsWhaleCall == call.fn = "evaluateWhalePreset"

FirstWhaleCall == IsWhaleCall /\ call.alertId \notin DOMAIN call.before

HasLargeOutcome(market) ==
    \E i \in 1..Len(market.outcomes) : ~(market.outcomes[i].volume < 10000)

\* C2 as stated: the first evaluation of a Whale alert (no volume recorded
\* for its id) returns false, whatever the snapshot.
C2_FirstWhaleNeverTriggers == FirstWhaleCall => call.ret = FALSE

\* C2 amended: the first evaluation of a Whale alert returns true exactly
\* when some outcome of the snapshot has volume >= 10000; the volume-ratio
\* clause never triggers it.
C2_FirstWhaleOnlyLargeTrade == FirstWhaleCall => (call.ret <=> HasLargeOutcome(call.market))

C2_Witness ==
    /\ FirstWhaleCall
    /\ DOMAIN call.before # {}
    /\ ~HasLargeOutcome(call.market)
    /\ Len(call.market.outcomes) = 2
    /\ call.ret = FALSE

\* C3: evaluateWhalePreset returns true exactly when the total volume is
\* strictly greater than 1.2 times the volume last recorded for the alert
\* (the current volume when none is recorded) or some outcome has volume
\* >= 10000.
C3_WhaleDecision ==
    IsWhaleCall =>
        LET current == call.market.totalVolume
            previous == IF call.alertId \in DOMAIN call.before
                        THEN call.before[call.alertId] ELSE current
        IN  call.ret <=> (10 * current > 12 * previous \/ HasLargeOutcome(call.market))

\* A volume exactly 1.2 times the recorded one, no large outcome: no trigger.
C3_Witness ==
    /\ IsWhaleCall
    /\ call.alertId \in DOMAIN call.before
    /\ 10 * call.market.totalVolume = 12 * call.before[call.alertId]
    /\ ~HasLargeOutcome(call.market)
    /\ call.ret = FALSE

IsFlipCall == call.fn = "evaluateFlipPreset"

\* C4: evaluateFlipPreset returns true exactly when the previous evaluation
\* of the alert recorded a favorite, the snapshot has a favorite, and the
\* two differ.
C4_FlipDecision ==
    IsFlipCall =>
        (call.ret <=>
            /\ call.alertId \in DOMAIN call.before
            /\ call.before[call.alertId] \in OutcomeIds
            /\ call.market.favoriteOutcomeId \in OutcomeIds
            /\ call.before[call.alertId] # call.market.favoriteOutcomeId)

C4_Witness ==
    /\ IsFlipCall
    /\ call.alertId \in DOMAIN call.before
    /\ call.before[call.alertId] = "o1"
    /\ call.market.favoriteOutcomeId = "o2"
    /\ call.ret = TRUE

\* C5: an empty condition list evaluates to false for either combinator; a
\* non-empty AND rule is true iff every condition is true on the snapshot;
\* a non-empty OR rule is true iff some condition is; a Custom alert without
\* a rule does not trigger.
C5_RuleDecision ==
    /\ (call.fn = "evaluateCustomRule" /\ call.done) =>
          LET cs == call.rule.conditions
              holds(i) == evaluateCondition(cs[i], call.market)
          IN  /\ Len(cs) = 0 => call.ret = FALSE
              /\ (Len(cs) > 0 /\ call.rule.operator = "AND") =>
                    (call.ret <=> \A i \in 1..Len(cs) : holds(i))
              /\ (Len(cs) > 0 /\ call.rule.operator = "OR") =>
                    (call.ret <=> \E i \in 1..Len(cs) : holds(i))
    /\ (call.fn = "evaluateAlert" /\ call.done /\ call.alert.type = "CUSTOM") =>
          /\ call.alert.custom_settings = <<>> => call.ret = FALSE
          /\ (call.alert.custom_settings # <<>>
                /\ Len(call.alert.custom_settings[1].conditions) = 0) => call.ret = FALSE

\* An AND rule of two conditions, one true and one false: false.
C5_Witness ==
    /\ call.fn = "evaluateCustomRule" /\ call.done
    /\ call.rule.operator = "AND"
    /\ Len(call.rule.conditions) = 2
    /\ evaluateCondition(call.rule.conditions[1], call.market)
    /\ ~evaluateCondition(call.rule.conditions[2], call.market)
    /\ call.ret = FALSE

\* C6: evaluateCondition resolves volume to the total volume, probability
\* and price to those of the first outcome, 0 when there is no outcome or
\* the metric is unrecognized, and compares strictly: a metric value equal
\* to the threshold yields false for gt and for lt.
C6_ConditionDecision ==
    (call.fn = "evaluateCondition" /\ call.done) =>
        LET c == call.condition
            m == call.market
            first == IF m.outcomes = <<>> THEN [price |-> 0, probability |-> 0]
                     ELSE Head(m.outcomes)
            v == IF c.metric = "volume" THEN m.totalVolume
                 ELSE IF c.metric = "probability" THEN first.probability
                 ELSE IF c.metric = "price" THEN first.price
                 ELSE 0
        IN  /\ c.operator = "gt" => (call.ret <=> v > c.value)
            /\ c.operator = "lt" => (call.ret <=> v < c.value)
            /\ v = c.value => call.ret = FALSE

\* The price of the first outcome equals the threshold and differs from its
\* probability and from the second outcome's price: false.
C6_Witness ==
    /\ call.fn = "evaluateCondition" /\ call.done
    /\ call.condition.metric = "price"
    /\ Len(call.market.outcomes) = 2
    /\ call.market.outcomes[1].price = call.condition.value
    /\ call.market.outcomes[1].probability # call.condition.value
    /\ call.market.outcomes[2].price # call.condition.value
    /\ call.ret = FALSE

\* The entries of a store other than that of alertId are what they were.
OthersKept(before, after, alertId) ==
    \A other \in EvalIds \ {alertId} :
        /\ MapHas(after, other) <=> MapHas(before, other)
        /\ MapHas(before, other) => after[other] = before[other]

\* C18: after every evaluation of a preset alert, triggered or not, the
\* stored volume of a Whale alert is the total volume of the snapshot just
\* evaluated and the stored favorite of a Flip alert is that snapshot's
\* favorite (none when it has none); the stored state of every other alert
\* is unchanged.
C18_StoredIsCurrentObservation ==
    [][LET alertId == call'.alertId
           market == call'.market
       IN  /\ call'.fn = "evaluateWhalePreset" =>
                 /\ MapHas(volumeCache', alertId)
                 /\ volumeCache'[alertId] = market.totalVolume
                 /\ OthersKept(volumeCache, volumeCache', alertId)
                 /\ favoriteOutcomeCache' = favoriteOutcomeCache
           /\ call'.fn = "evaluateFlipPreset" =>
                 /\ MapHas(favoriteOutcomeCache', alertId)
                 /\ favoriteOutcomeCache'[alertId] = market.favoriteOutcomeId
                 /\ OthersKept(favoriteOutcomeCache, favoriteOutcomeCache', alertId)
                 /\ volumeCache' = volumeCache]_vars

\* A Whale evaluation that did not trigger replaced the stored volume of its
\* alert while the other alert has a stored volume and a stored favorite.
C18_Witness ==
    /\ IsWhaleCall
    /\ call.ret = FALSE
    /\ call.alertId = "a1"
    /\ MapHas(call.before, "a1")
    /\ call.before["a1"] # call.market.totalVolume
    /\ volumeCache["a1"] = call.market.totalVolume
    /\ MapHas(volumeCache, "a2")
    /\ MapHas(favoriteOutcomeCache, "a2")
    /\ MapHas(favoriteOutcomeCache, "a1")
    /\ favoriteOutcomeCache["a1"] = Null

(***************************************************************************)
(* Claims about the batch.                                                 *)
(***************************************************************************)
Positions == 1..Len(alerts)

SlugAt(i) == alerts[i].market_slug

\* C1: within one invocation getMarketData is called at most once per
\* market identifier; the result is stored under the identifier when the
\* call is made, before it resolves, and every evaluation of an alert on
\* that market reads that same result.
C1_OneUpstreamCallPerMarket ==
    /\ \A s \in Slugs : marketCalls[s] <= 1
    /\ \A s \in Slugs : marketCalls[s] > 0 => s \in DOMAIN marketCache
    /\ \A i \in DOMAIN seen : \A j \in DOMAIN seen :
          SlugAt(i) = SlugAt(j) => seen[i] = seen[j]
    /\ \A i \in DOMAIN seen : marketCache[SlugAt(i)] = [value |-> seen[i], state |-> "fulfilled"]

\* Three fetchMarket calls interleaving two markets, one upstream call each.
C1_Witness ==
    /\ Len(alerts) >= 2
    /\ \E i \in DOMAIN seen : \E j \in DOMAIN seen : i < j /\ SlugAt(i) = SlugAt(j)
    /\ \A i \in DOMAIN seen : marketCalls[SlugAt(i)] = 1

NoRecipientAt(i) ==
    /\ i \in triggered
    /\ alerts[i].user_id \in DOMAIN userEmailCache
    /\ userEmailCache[alerts[i].user_id] = [value |-> Null, state |-> "fulfilled"]

Continued(i) ==
    /\ i < Len(alerts) => i + 1 \in fetched
    /\ i = Len(alerts) => pc = "idle" /\ response = [processed |-> processed, kind |-> "success"]

\* C7: a triggered alert whose recipient resolves to none is skipped: no
\* notification, no timestamp update, no increment of processed, and the
\* batch continues with the next alert.
C7_NoRecipientSkipped ==
    /\ processed = Cardinality(counted)
    /\ \A i \in Positions :
          NoRecipientAt(i) =>
             /\ i \notin dispatched
             /\ i \notin updated
             /\ i \notin counted
             /\ \/ pc = "user" /\ idx = i
                \/ i \in skipped /\ Continued(i)

\* The first alert has no recipient and the second is notified and counted.
C7_Witness ==
    /\ NoRecipientAt(1)
    /\ 1 \in skipped
    /\ 2 \in counted
    /\ processed = 1

\* C8: a failed market fetch aborts the rest of the batch: no later alert is
\* fetched, evaluated, notified or persisted, and the answer is CRON_FAILED.
C8_MarketFailureAborts ==
    \A i \in Positions :
        <<"market", i>> \in failedAt =>
           /\ pc = "idle"
           /\ response = [kind |-> "CRON_FAILED"]
           /\ i \notin DOMAIN seen
           /\ \A j \in Positions :
                 j > i => j \notin fetched \cup DOMAIN seen \cup dispatched \cup updated

\* The fetch of the second alert fails after the first one was counted.
C8_Witness ==
    /\ <<"market", 2>> \in failedAt
    /\ 1 \in counted
    /\ Len(alerts) >= 2

OnlyDispatchFailed == \A f \in failedAt : f[1] = "send"

\* C9 as stated: a failed dispatch does not abort the batch: the alerts
\* after it are still fetched and evaluated and the invocation ends with a
\* success response.
C9_DispatchFailureIsolated ==
    \A i \in Positions :
        (<<"send", i>> \in failedAt /\ OnlyDispatchFailed /\ pc = "idle") =>
           /\ response.kind = "success"
           /\ \A j \in Positions : j > i => j \in DOMAIN seen

\* C10: a failed timestamp update neither aborts the batch nor reduces the
\* count: the alert is counted and the following alerts are handled.
C10_UpdateFailureCounted ==
    /\ processed = Cardinality(counted)
    /\ \A i \in Positions :
          <<"update", i>> \in failedAt =>
             /\ i \in dispatched
             /\ i \in counted
             /\ Continued(i)
             /\ (pc = "idle" /\ \A f \in failedAt : f[1] \in {"update", "user"}) =>
                   /\ response.kind = "success"
                   /\ \A j \in Positions : j > i => j \in DOMAIN seen

\* The update of the first alert fails; both alerts are counted.
C10_Witness ==
    /\ <<"update", 1>> \in failedAt
    /\ counted = {1, 2}
    /\ response = [processed |-> 2, kind |-> "success"]

\* The credential a header carries: its text after "Bearer ".
Credential(header) == header.parts[Len(header.parts)]

BadCredential(header) == ~header.present \/ Credential(header) # cronSecret

C12_ProcessedCountsDispatches ==
    response.kind = "success" =>
       /\ dispatched \subseteq Positions
       /\ response.processed = Cardinality(dispatched)
       /\ updated = dispatched
       /\ response.processed = Cardinality(updated)
       /\ alerts = <<>> => response.processed = 0
       /\ response.processed <= Len(alerts)

\* Two alerts loaded, the first skipped for want of a recipient, the second
\* notified: processed is 1.
C12_Witness ==
    /\ response = [processed |-> 1, kind |-> "success"]
    /\ Len(alerts) = 2
    /\ 1 \in skipped
    /\ dispatched = {2}

\* The external calls made for the alert at position i have all completed.
CallsCompleted(i) ==
    /\ marketCache[SlugAt(i)].state # "pending"
    /\ i \in triggered => userEmailCache[alerts[i].user_id].state # "pending"
    /\ i \in dispatched => i \in updated
    /\ i \in updated => i \in counted

\* C13: alerts are handled strictly sequentially in the order they were
\* loaded: the first call for a position is its market fetch, positions are
\* fetched in increasing order, and every external call made for position
\* i has completed before any call for a later position starts.
C13_StrictlySequential ==
    /\ alerts # <<>> => alerts = db
    /\ fetched \subseteq Positions
    /\ (DOMAIN seen) \cup triggered \cup dispatched \cup updated \subseteq fetched
    /\ \A j \in fetched : \A i \in 1..(j - 1) : i \in fetched /\ CallsCompleted(i)

\* The second alert is at its dispatch after the first went through all
\* four calls.
C13_Witness ==
    /\ pc = "send"
    /\ idx = 2
    /\ 1 \in counted
    /\ 2 \in dispatched

\* C14 as stated: a missing invocation secret is fatal at startup, so a
\* process without the secret never fails while authorizing a request.
C14_MissingSecretFatalAtStartup == ~(cronSecret = Null /\ response = Unhandled)

\* C15 as stated: the market snapshot cache and the recipient cache are
\* empty when an invocation starts, so the first fetchMarket of an
\* invocation for a market always calls getMarketData.
C15_CachesEmptyAtStart ==
    /\ pc = "load" => marketCache = EmptyMap /\ userEmailCache = EmptyMap
    /\ \A i \in fetched : marketCalls[SlugAt(i)] >= 1

\* An alert row whose stored state, if any, is that of the cached snapshot
\* of its market.
StoredIsCached(row) ==
    LET cached == marketCache[row.market_slug]
    IN  /\ MapHas(volumeCache, row.id) =>
              /\ MapHas(marketCache, row.market_slug)
              /\ cached.state = "fulfilled"
              /\ volumeCache[row.id] = cached.value.totalVolume
        /\ MapHas(favoriteOutcomeCache, row.id) =>
              /\ MapHas(marketCache, row.market_slug)
              /\ cached.state = "fulfilled"
              /\ favoriteOutcomeCache[row.id] = cached.value.favoriteOutcomeId

\* C16: with alert ids occurring once and keeping their market, in every
\* invocation, first or later, in the same process or in a new one, a Flip
\* alert does not trigger and a Whale alert triggers only on a snapshot
\* with a large outcome: the state stored for an alert is always that of
\* the snapshot cached for its market, which is the one it is evaluated on.
C16_NoDeltaAcrossInvocations ==
    /\ \A i \in 1..Len(db) : StoredIsCached(db[i])
    /\ \A i \in triggered :
          /\ alerts[i].preset_type # "FLIP"
          /\ alerts[i].preset_type = "WHALE" => HasLargeOutcome(seen[i])

\* A later invocation in the same process (its snapshots were fetched by an
\* earlier one) evaluated a Flip and a Whale alert and neither triggered.
C16_Witness ==
    /\ response = [processed |-> 0, kind |-> "success"]
    /\ Len(alerts) = 2
    /\ \A s \in Slugs : marketCalls[s] = 0
    /\ alerts[1].preset_type = "FLIP"
    /\ alerts[2].preset_type = "WHALE"
    /\ DOMAIN seen = {1, 2}
    /\ triggered = {}

UserAt(i) == alerts[i].user_id

\* C19: for one alert the steps run in a fixed order and only as far as
\* needed: a recipient is looked up only for an alert whose evaluation
\* returned true, a notification is dispatched only to a resolved
\* recipient, the timestamp update is issued only after the dispatch call
\* of that alert completed, and an alert that does not trigger causes no
\* lookup, no dispatch and no update.
C19_StepsInOrder ==
    /\ triggered \subseteq DOMAIN seen
    /\ \A u \in Users : userCalls[u] > 0 => \E i \in triggered : UserAt(i) = u
    /\ pc = "user" => idx \in triggered
    /\ skipped \cup dispatched \subseteq triggered
    /\ \A i \in dispatched :
          /\ userEmailCache[UserAt(i)].state = "fulfilled"
          /\ userEmailCache[UserAt(i)].value # Null
    /\ updated \subseteq dispatched
    /\ \A i \in updated : ~(pc = "send" /\ idx = i)
    /\ counted \subseteq updated
    /\ \A i \in (DOMAIN seen) \ triggered :
          i \notin skipped \cup dispatched \cup updated \cup counted

\* The first alert did not trigger and its owner was never looked up; the
\* second, of another owner, went through lookup, dispatch and update.
C19_Witness ==
    /\ Len(alerts) = 2
    /\ 1 \in (DOMAIN seen) \ triggered
    /\ UserAt(1) # UserAt(2)
    /\ userCalls[UserAt(1)] = 0
    /\ UserAt(1) \notin DOMAIN userEmailCache
    /\ userCalls[UserAt(2)] = 1
    /\ 2 \in counted

\* C20: within an invocation getUserById is called at most once per user,
\* every triggered alert of a user gets the same result, and a lookup that
\* fails yields none: the alerts of that user are skipped and the batch is
\* not aborted.
C20_RecipientMemoized ==
    /\ \A u \in Users : userCalls[u] <= 1
    /\ \A i \in triggered : \A j \in triggered :
          UserAt(i) = UserAt(j) => ~(i \in skipped /\ j \in dispatched)
    /\ \A i \in Positions :
          <<"user", i>> \in failedAt =>
             /\ userEmailCache[UserAt(i)] = [value |-> Null, state |-> "fulfilled"]
             /\ \A j \in triggered : UserAt(j) = UserAt(i) => j \notin dispatched
             /\ \/ pc = "user" /\ idx = i
                \/ i \in skipped /\ Continued(i)
             /\ (pc = "idle" /\ \A f \in failedAt : f[1] = "user") => response.kind = "success"

\* Two alerts of one user trigger, the single lookup fails, both are skipped
\* and the invocation answers success.
C20_Witness ==
    /\ <<"user", 1>> \in failedAt
    /\ triggered = {1, 2}
    /\ skipped = {1, 2}
    /\ UserAt(1) = UserAt(2)
    /\ userCalls[UserAt(1)] = 1
    /\ response = [processed |-> 0, kind |-> "success"]

Answered == response.kind \in {"success", "CRON_FAILED"}

\* C21: every authorized invocation ends with exactly one response, success
\* with a processed count or CRON_FAILED, when every external call settles:
\* an invocation under way has not answered yet, it answers in the step in
\* which it ends, it does end, and its loop only moves from one position
\* to the next one, not fetched before, so that no alert is visited twice.
C21_TerminatesWithOneResponse ==
    /\ [](pc # "idle" => response = NoResponse)
    /\ [][pc # "idle" =>
            /\ (pc' = "idle") = (response' # NoResponse)
            /\ pc' = "idle" => Answered'
            /\ (pc' = "market" /\ (pc # "market" \/ seen' # seen)) =>
                  (idx' = idx + 1 /\ idx' \notin fetched /\ idx' <= Len(alerts'))
            /\ ~(pc' = "market" /\ (pc # "market" \/ seen' # seen)) => idx' = idx]_vars
    /\ (pc # "idle") ~> (pc = "idle" /\ Answered)

\* An invocation over two alerts has visited both, the second fetch failed
\* and it answered CRON_FAILED; another one answered success.
C21_Witness ==
    /\ pc = "idle"
    /\ Len(alerts) = 2
    /\ fetched = {1, 2}
    /\ idx = 2
    /\ Answered

FailedMarket(slug) == MapHas(marketCache, slug) /\ marketCache[slug] = Rejected

\* C24: a failed market fetch is never retried.  Within a process the failed
\* entry of a market stays as it is and no further upstream call is made
\* for that market, and an invocation that reaches an alert on that market
\* can only end there with CRON_FAILED.
C24_FailedFetchNeverRetried ==
    /\ [](\A i \in fetched :
            FailedMarket(SlugAt(i)) =>
               /\ idx = i
               /\ i \notin DOMAIN seen
               /\ \/ pc = "market"
                  \/ pc = "idle" /\ response = CronFailed /\ <<"market", i>> \in failedAt)
    /\ [][\A slug \in Slugs :
            FailedMarket(slug) =>
               \/ /\ marketCache' = EmptyMap
                  /\ UNCHANGED pc
                  /\ pc = "idle"
               \/ /\ FailedMarket(slug)'
                  /\ marketCalls'[slug] \in {marketCalls[slug], 0}
                  /\ pc = "market" /\ SlugAt(idx) = slug =>
                        (pc' = "idle" /\ response' = CronFailed)]_vars

\* A later invocation of the process reached an alert on a market whose
\* fetch failed in an earlier invocation: no upstream call, CRON_FAILED.
C24_Witness ==
    /\ pc = "idle"
    /\ response = CronFailed
    /\ Len(alerts) = 2
    /\ failedAt = {<<"market", 2>>}
    /\ FailedMarket(SlugAt(2))
    /\ marketCalls[SlugAt(2)] = 0
    /\ SlugAt(1) # SlugAt(2)
    /\ 1 \in DOMAIN seen

\* States of the alert state store other than the one of the run.
OtherVolumes(id) == {EmptyMap, MapSet(EmptyMap, id, 60)}

OtherFavorites(id) == {EmptyMap, MapSet(EmptyMap, id, "o1")}

\* C25: the decision for a custom alert depends only on its rule and the
\* snapshot it is evaluated against.  It is the value of the rule on the
\* snapshot, it is the same under any other timestamp of the alert and any
\* other stored volume or favorite, whatever was evaluated before, and a
\* custom alert whose rule holds is notified in every invocation in which
\* its recipient resolves.
C25_CustomDecisionIndependent ==
    \A i \in DOMAIN seen :
        alerts[i].type = "CUSTOM" =>
           LET decision == i \in triggered
           IN  /\ decision = (/\ alerts[i].custom_settings # <<>>
                              /\ evaluateCustomRule(alerts[i].custom_settings[1], seen[i]))
               /\ \A vc \in {volumeCache} \cup OtherVolumes(alerts[i].id) :
                  \A fc \in {favoriteOutcomeCache} \cup OtherFavorites(alerts[i].id) :
                  \A t \in {Null, TriggeredAt} :
                     evaluateAlert(vc, fc, [alerts[i] EXCEPT !.last_triggered_at = t],
                                   seen[i]).ret = decision
               /\ decision =>
                     \/ pc = "user" /\ idx = i
                     \/ i \in skipped /\ ~HasRecipient(userEmailCache[UserAt(i)].value)
                     \/ i \in dispatched

\* A custom alert that carries the timestamp of an earlier invocation is
\* notified again, the stores holding state of a preset alert by then.
C25_Witness ==
    /\ Len(alerts) = 2
    /\ alerts[1].type = "CUSTOM"
    /\ alerts[1].last_triggered_at = TriggeredAt
    /\ 1 \in triggered
    /\ 1 \in dispatched
    /\ 1 \in counted
    /\ volumeCache # EmptyMap

(***************************************************************************)
(* Claims about getMarketData.                                             *)
(***************************************************************************)
BuiltFromOutcomes ==
    /\ call.fn = "getMarketData"
    /\ call.done
    /\ call.payload.kind = "market"
    /\ call.payload.market[1].outcomes >= 1

AllOutcomes ==
    [i \in 1..call.payload.market[1].outcomes |-> normalizeOutcome(call.payload.market[1], i - 1)]

\* a is not behind b in the order by descending volume, then descending
\* probability.
NotBehind(a, b) ==
    \/ a.volume > b.volume
    \/ a.volume = b.volume /\ a.probability >= b.probability

\* C22: for an upstream market with at least one outcome the snapshot keeps
\* the first two outcomes (the only one when there is one) of all outcomes
\* ordered by descending volume, then descending probability, and its
\* favorite is the id of the kept outcome with the highest probability, the
\* earlier one on a tie; the favorite is never none.
C22_TopTwoAndFavorite ==
    BuiltFromOutcomes =>
       /\ call.result.state = "fulfilled"
       /\ LET kept == call.result.value.outcomes
              n == Len(AllOutcomes)
          IN  /\ Len(kept) = IF n < 2 THEN n ELSE 2
              /\ \A k \in DOMAIN kept : \E i \in 1..n : kept[k] = AllOutcomes[i]
              /\ \A k \in DOMAIN kept : \A l \in DOMAIN kept :
                    k < l => (kept[k].id # kept[l].id /\ NotBehind(kept[k], kept[l]))
              /\ \A k \in DOMAIN kept : \A i \in 1..n :
                    (\A l \in DOMAIN kept : kept[l].id # AllOutcomes[i].id) =>
                        NotBehind(kept[k], AllOutcomes[i])
              /\ \E f \in DOMAIN kept :
                    /\ call.result.value.favoriteOutcomeId = kept[f].id
                    /\ \A k \in DOMAIN kept : kept[k].probability <= kept[f].probability
                    /\ \A k \in DOMAIN kept : k < f => kept[k].probability < kept[f].probability
              /\ call.result.value.favoriteOutcomeId # Null

\* Three upstream outcomes of which the first is dropped, the two kept ones
\* have the same volume and are ordered by probability.
C22_Witness ==
    /\ BuiltFromOutcomes
    /\ call.payload.market[1].outcomes = 3
    /\ call.result.state = "fulfilled"
    /\ LET kept == call.result.value.outcomes
       IN  /\ kept[1].id = "mk-2"
           /\ kept[2].id = "mk-1"
           /\ kept[1].volume = kept[2].volume
           /\ kept[1].probability > kept[2].probability
           /\ call.result.value.favoriteOutcomeId = "mk-2"

(***************************************************************************)
(* Claims about the dashboard.                                             *)
(***************************************************************************)
\* C17 as stated: a user who is not pro never owns more than
\* MAX_FREE_ALERTS alerts, however the create and delete requests of that
\* user interleave.
C17_FreeQuotaNeverExceeded ==
    \A u \in Users : ~profiles[u] => Cardinality(OwnedBy(db, u)) <= MAX_FREE_ALERTS

InvalidSlug(formData) == \A i \in DOMAIN formData.market_slug : formData.market_slug[i] = " "

\* An AlertCondition: a metric, an operator and a value.
IsCondition(c) == DOMAIN c = {"metric", "operator", "value"}

\* The data-model invariant on one row.
WellFormedRow(row) ==
    \/ /\ row.type = "PRESET"
       /\ row.preset_type \in {"WHALE", "FLIP"}
       /\ row.custom_settings = <<>>
    \/ /\ row.type = "CUSTOM"
       /\ row.preset_type = Null
       /\ row.custom_settings # <<>>
       /\ Len(row.custom_settings[1].conditions) >= 1
       /\ \A i \in DOMAIN row.custom_settings[1].conditions :
             IsCondition(row.custom_settings[1].conditions[i])

\* C23 as stated: every row the create actions insert satisfies the
\* data-model invariant, createPresetAlert prepares only PRESET rows with
\* preset WHALE or FLIP and no rule, createCustomAlert only CUSTOM rows
\* without preset and with a rule of at least one condition, and a request
\* with an empty market identifier, an invalid preset, or an unparsable or
\* empty rule inserts nothing.
C23_InsertedRowsWellFormed ==
    /\ [](\A i \in DOMAIN db : WellFormedRow(db[i]))
    /\ [][/\ \A r \in RequestIds, user \in Sessions, formData \in PresetForms :
               createPresetAlert(r, user, formData) =>
                  /\ requests'[r] # Done =>
                        (requests'[r].row.type = "PRESET" /\ WellFormedRow(requests'[r].row))
                  /\ (InvalidSlug(formData) \/ formData.preset_type \notin {"WHALE", "FLIP"}) =>
                        requests'[r] = Done
          /\ \A r \in RequestIds, user \in Sessions, formData \in CustomForms :
               createCustomAlert(r, user, formData) =>
                  /\ requests'[r] # Done =>
                        (requests'[r].row.type = "CUSTOM" /\ WellFormedRow(requests'[r].row))
                  /\ (\/ InvalidSlug(formData)
                      \/ formData.custom_settings.text \in {"", "{", "null", "{}", EmptyRuleText}) =>
                        requests'[r] = Done
          /\ Len(db') > Len(db) =>
               \E r \in RequestIds :
                  /\ requests[r].pc = "insert"
                  /\ requests'[r] = Done
                  /\ db' = Append(db, db'[Len(db')])
                  /\ db'[Len(db')].type = requests[r].row.type
                  /\ db'[Len(db')].custom_settings = requests[r].row.custom_settings]_vars

(***************************************************************************)
(* Claims about the rule builder.                                          *)
(***************************************************************************)
\* C26 as stated: whatever defaultValue the builder started from and
\* whatever was added, removed or changed since, the condition list holds
\* at least one condition, and so does the rule the builder serializes.
C26_BuilderKeepsOneCondition ==
    /\ Len(conditions) >= 1
    /\ Len(currentRule.conditions) >= 1

====
